---- MODULE Spec2Model ----
(***************************************************************************)
(* Reminder engine of sase-bot (src/utils/cogs/remindme.py): the time and  *)
(* recurrence parsers, the create / cancel / snooze commands and the       *)
(* periodic dispatch loop, over the peewee table core.database.Reminder.   *)
(*                                                                         *)
(* Times are integer seconds of UTC, counted from 2025-11-10 00:00:00 UTC. *)
(* Strings are tuples of one-character strings, so that the parsers work   *)
(* on the characters as the regular expressions of the source do.          *)
(* An Optional value is the empty tuple (None) or a one-element tuple.     *)
(***************************************************************************)
EXTENDS Integers, Sequences, FiniteSets, TLC

\* ---------------------------------------------------------------- bounds
\* Most reminder rows the commands create (Spec, SpecRequests, SpecRange,
\* SpecLive, SpecRecords).
MaxReminders == 1
\* Most reminder rows under the faulty store (SpecFault) and under the
\* commands of two users (SpecCancel, SpecSnooze, SpecList), and the most
\* a pass holds while its records are cancelled and snoozed (SpecBatch).
MaxBatch == 2
\* Most clock ticks (of MIN_SECONDS each) after StartTime.
MaxTicks == 2
\* Most per-record exceptions the faulty store raises (SpecFault only).
MaxFaults == 1

\* -------------------------------------------------------------- constants
MAX_RELATIVE_SECONDS == 14 * 24 * 3600
MIN_SECONDS == 60
DISPATCH_INTERVAL == 30
DEFAULT_TZ == "America/New_York"

\* Offset of America/New_York from UTC in seconds (EST; the model's whole
\* horizon lies between the 2025-11-02 and 2026-03-08 transitions).
EST_OFFSET == 5 * 3600

\* The instant the model starts at: 2025-11-10 04:59:30 UTC, which is
\* 2025-11-09 23:59:30 in DEFAULT_TZ.
StartTime == 17970

None == << >>
Some(v) == << v >>
Val(o) == o[1]

\* ------------------------------------------------------- character strings
Digits == {"0", "1", "2", "3", "4", "5", "6", "7", "8", "9"}

DigitVal(c) ==
  CASE c = "0" -> 0 [] c = "1" -> 1 [] c = "2" -> 2 [] c = "3" -> 3
    [] c = "4" -> 4 [] c = "5" -> 5 [] c = "6" -> 6 [] c = "7" -> 7
    [] c = "8" -> 8 [] c = "9" -> 9

\* str.lower() on the characters the inputs use.
LowerChar(c) ==
  CASE c = "D" -> "d" [] c = "H" -> "h" [] c = "M" -> "m" [] c = "S" -> "s"
    [] c = "A" -> "a" [] c = "P" -> "p" [] c = "N" -> "n" [] c = "O" -> "o"
    [] c = "V" -> "v" [] c = "U" -> "u" [] c = "R" -> "r" [] c = "L" -> "l"
    [] c = "Y" -> "y" [] c = "W" -> "w" [] c = "E" -> "e" [] c = "K" -> "k"
    [] c = "I" -> "i" [] OTHER -> c

Lower(s) == [i \in 1..Len(s) |-> LowerChar(s[i])]

RECURSIVE LStrip(_)
LStrip(s) == IF s # << >> /\ Head(s) = " " THEN LStrip(Tail(s)) ELSE s

RECURSIVE RStrip(_)
RStrip(s) ==
  IF s # << >> /\ s[Len(s)] = " " THEN RStrip(SubSeq(s, 1, Len(s) - 1)) ELSE s

\* str.strip()
Strip(s) == RStrip(LStrip(s))

\* Length of the run of digits of s that starts at position p (\d+ is greedy).
RECURSIVE DigitRun(_, _)
DigitRun(s, p) ==
  IF p <= Len(s) /\ s[p] \in Digits THEN 1 + DigitRun(s, p + 1) ELSE 0

\* int() of a string of digits.
RECURSIVE ToInt(_)
ToInt(s) ==
  IF s = << >> THEN 0 ELSE 10 * ToInt(SubSeq(s, 1, Len(s) - 1)) + DigitVal(s[Len(s)])

\* ---------------------------------------------------------------- parsers
HOURLY == << "h", "o", "u", "r", "l", "y" >>
DAILY == << "d", "a", "i", "l", "y" >>
WEEKLY == << "w", "e", "e", "k", "l", "y" >>

REPEAT_KEYWORDS(s) ==
  CASE s = HOURLY -> Some(3600)
    [] s = DAILY -> Some(86400)
    [] s = WEEKLY -> Some(7 * 86400)
    [] OTHER -> None

DurationUnits == << "d", "h", "m", "s" >>
UnitSeconds == << 86400, 3600, 60, 1 >>

\* DURATION_PATTERN.match on s from position p with the groups k..4 left:
\* each group (\d+<unit>)? is taken when it matches, "$" ends the match.
\* None when the pattern does not match, else the total of the groups.
RECURSIVE DURATION_PATTERN(_, _, _)
DURATION_PATTERN(s, p, k) ==
  IF k > 4
  THEN IF p = Len(s) + 1 THEN Some(0) ELSE None
  ELSE LET n == DigitRun(s, p)
       IN IF n >= 1 /\ p + n <= Len(s) /\ s[p + n] = DurationUnits[k]
          THEN LET rest == DURATION_PATTERN(s, p + n + 1, k + 1)
               IN IF rest = None
                  THEN None
                  ELSE Some(ToInt(SubSeq(s, p, p + n - 1)) * UnitSeconds[k] + Val(rest))
          ELSE DURATION_PATTERN(s, p, k + 1)

\* parse_duration without the `total > 0` test of line 60.
parse_duration_keeps_zero(duration_str) ==
  LET s == Lower(Strip(duration_str))
      m == DURATION_PATTERN(s, 1, 1)
  IN IF REPEAT_KEYWORDS(s) # None THEN REPEAT_KEYWORDS(s)
     ELSE m

\* parse_duration: total seconds of '1d2h30m15s', a keyword's seconds, or None.
parse_duration(duration_str) ==
  LET s == Lower(Strip(duration_str))
      m == DURATION_PATTERN(s, 1, 1)
  IN IF REPEAT_KEYWORDS(s) # None THEN REPEAT_KEYWORDS(s)
     ELSE IF m = None THEN None
     ELSE IF Val(m) > 0 THEN m ELSE None

\* parse_repeat without the fall-back to parse_duration of line 145.
parse_repeat_keywords_only(repeat_str) ==
  IF repeat_str = None \/ Val(repeat_str) = << >> THEN None
  ELSE REPEAT_KEYWORDS(Lower(Strip(Val(repeat_str))))

\* parse_repeat: the interval in seconds of a recurrence string, or None.
\* The argument is an Optional string (None: the option was omitted).
parse_repeat(repeat_str) ==
  IF repeat_str = None \/ Val(repeat_str) = << >> THEN None
  ELSE LET s == Lower(Strip(Val(repeat_str)))
       IN IF REPEAT_KEYWORDS(s) # None THEN REPEAT_KEYWORDS(s)
          ELSE parse_duration(s)

\* ------------------------------------------------------ absolute date/time
WordBreak == {" ", ":", "-", "/", ","}

\* A regular expression's \b before position p (a word character starts
\* there) and after position p (a word character ends there).
BoundaryBefore(s, p) == p = 1 \/ s[p - 1] \in WordBreak
BoundaryAfter(s, p) == p = Len(s) \/ s[p + 1] \in WordBreak

AllDigits(s, p, n) ==
  p >= 1 /\ p + n - 1 <= Len(s) /\ \A i \in p..(p + n - 1) : s[i] \in Digits

MonthNames ==
  { << "j", "a", "n" >>, << "f", "e", "b" >>, << "m", "a", "r" >>,
    << "a", "p", "r" >>, << "m", "a", "y" >>, << "j", "u", "n" >>,
    << "j", "u", "l" >>, << "a", "u", "g" >>, << "s", "e", "p" >>,
    << "s", "e", "p", "t" >>, << "o", "c", "t" >>, << "n", "o", "v" >>,
    << "d", "e", "c" >> }

\* _input_has_date: a 4-digit year, a numeric date like 11/10 or 11-10, or a
\* month name.
_input_has_date(dt_str) ==
  LET s == Lower(Strip(dt_str))
  IN \/ \E p \in 1..Len(s) :
          AllDigits(s, p, 4) /\ BoundaryBefore(s, p) /\ BoundaryAfter(s, p + 3)
     \/ \E p \in 1..Len(s) : \E a \in 1..2 : \E b \in 1..2 :
          /\ AllDigits(s, p, a) /\ BoundaryBefore(s, p)
          /\ p + a <= Len(s) /\ s[p + a] \in {"/", "-"}
          /\ AllDigits(s, p + a + 1, b) /\ BoundaryAfter(s, p + a + b)
     \/ \E p \in 1..Len(s) : \E mn \in MonthNames :
          /\ p + Len(mn) - 1 <= Len(s)
          /\ SubSeq(s, p, p + Len(mn) - 1) = mn
          /\ BoundaryBefore(s, p) /\ BoundaryAfter(s, p + Len(mn) - 1)

\* The words of s between its spaces.
RECURSIVE Split(_, _)
Split(s, word) ==
  IF s = << >> THEN (IF word = << >> THEN << >> ELSE << word >>)
  ELSE IF Head(s) = " "
       THEN (IF word = << >> THEN << >> ELSE << word >>) \o Split(Tail(s), << >>)
       ELSE Split(Tail(s), Append(word, Head(s)))

\* A clock token H:MM or HH:MM.
IsClock(t) ==
  \/ Len(t) = 4 /\ AllDigits(t, 1, 1) /\ t[2] = ":" /\ AllDigits(t, 3, 2)
  \/ Len(t) = 5 /\ AllDigits(t, 1, 2) /\ t[3] = ":" /\ AllDigits(t, 4, 2)
ClockHour(t) == ToInt(SubSeq(t, 1, Len(t) - 3))
ClockMinute(t) == ToInt(SubSeq(t, Len(t) - 1, Len(t)))

IsAmPm(t) == Lower(t) \in { << "a", "m" >>, << "p", "m" >> }

\* A date token YYYY-MM-DD.
IsIsoDate(t) ==
  /\ Len(t) = 10 /\ AllDigits(t, 1, 4) /\ t[5] = "-"
  /\ AllDigits(t, 6, 2) /\ t[8] = "-" /\ AllDigits(t, 9, 2)

\* Days from 2025-11-10 to the date of a token, for the dates of November
\* and December 2025; None for any other date.
DayIndex(t) ==
  LET y == ToInt(SubSeq(t, 1, 4))
      mo == ToInt(SubSeq(t, 6, 7))
      d == ToInt(SubSeq(t, 9, 10))
  IN IF y = 2025 /\ mo = 11 /\ d \in 1..30 THEN Some(d - 10)
     ELSE IF y = 2025 /\ mo = 12 /\ d \in 1..31 THEN Some(20 + d)
     ELSE None

\* Hour of the day of a clock token under an optional AM/PM word; None when
\* dateutil raises (hour or minute out of range).
HourOfDay(clock, ampm) ==
  LET h == ClockHour(clock)
  IN IF ClockMinute(clock) > 59 THEN None
     ELSE IF ampm = None THEN (IF h <= 23 THEN Some(h) ELSE None)
     ELSE IF h > 12 THEN None
     ELSE IF Lower(Val(ampm)) = << "p", "m" >>
          THEN Some(IF h < 12 THEN h + 12 ELSE h)
          ELSE Some(IF h = 12 THEN 0 ELSE h)

\* dateparser.parse(s, default=default_dt) for the forms
\*   [YYYY-MM-DD] H:MM [AM|PM]   and   YYYY-MM-DD
\* as a naive instant (seconds from the epoch, read in no timezone): fields
\* the text gives replace those of default_dt, every other field (the date of
\* a time-only text, the seconds of every text, the time of a date-only
\* text) stays as in default_dt. None when the text is not of these forms.
dateparser_parse(s, default_dt) ==
  LET toks == Split(s, << >>)
      n == Len(toks)
      dated == n >= 1 /\ IsIsoDate(toks[1])
      rest == IF dated THEN Tail(toks) ELSE toks
      day == IF dated THEN DayIndex(toks[1]) ELSE Some(default_dt \div 86400)
      ampm == IF Len(rest) = 2 THEN Some(rest[2]) ELSE None
      shapeOk ==
        \/ dated /\ rest = << >>
        \/ Len(rest) = 1 /\ IsClock(rest[1])
        \/ Len(rest) = 2 /\ IsClock(rest[1]) /\ IsAmPm(rest[2])
  IN IF ~shapeOk \/ day = None THEN None
     ELSE IF rest = << >> THEN Some(Val(day) * 86400 + (default_dt % 86400))
     ELSE LET h == HourOfDay(rest[1], ampm)
          IN IF h = None THEN None
             ELSE Some(Val(day) * 86400 + Val(h) * 3600
                       + ClockMinute(rest[1]) * 60 + (default_dt % 60))

\* A datetime value: its instant, and whether it carries a tzinfo.
Naive(t) == [t |-> t, aware |-> FALSE]
Aware(t) == [t |-> t, aware |-> TRUE]

\* datetime.utcnow(): naive.
utcnow(clock) == Naive(clock)

\* a - b of two datetimes raises TypeError when exactly one of them is aware.
SubtractRaises(a, b) == a.aware # b.aware

\* tz.localize(dt).astimezone(pytz.UTC) for DEFAULT_TZ: the UTC instant of a
\* naive instant read as local time of America/New_York.
LocalizeToUtc(naive) == naive + EST_OFFSET

\* parse_absolute_datetime when the clock reads `clock`: an aware UTC
\* datetime, or None. A text with no date whose instant is not later than
\* now + MIN_SECONDS is moved one day on.
parse_absolute_datetime(dt_str, clock) ==
  LET s == Strip(dt_str)
      has_date == _input_has_date(s)
      dt == dateparser_parse(s, utcnow(clock).t)
  IN IF s = << >> \/ dt = None THEN None
     ELSE LET now_utc == Aware(utcnow(clock).t)
              parsed_utc == Aware(LocalizeToUtc(Val(dt)))
          IN IF ~has_date /\ parsed_utc.t <= now_utc.t + MIN_SECONDS
             THEN Some(Aware(parsed_utc.t + 86400))
             ELSE Some(parsed_utc)

\* ------------------------------------------------------------------ state
VARIABLES
  now,        \* the UTC clock, in seconds
  loop,       \* the dispatch_loop task: "running" or "stopped"
  store,      \* the reminders table: row i has id i (AutoField)
  out,        \* what the latest step sent out: a command's reply to its
              \* user, or a send's outcome and the sends skipped for want of
              \* a channel; NoOutput after a step that sends nothing
  pc,         \* the dispatch pass: "idle", or "sending" (suspended in send)
  todo,       \* reminders_to_process from the record being sent on: the
              \* pass's in-memory copies, as read at the start of the pass
  readAt,     \* the pass's `now`, the clock its query read (0 when idle)
  fired,      \* per id: how many dispatch updates passes have saved
  cancelled,  \* ids a cancel command has succeeded on
  snoozed,    \* ids a snooze command has succeeded on
  snz,        \* per id: the due_at the last snooze asked for, until a pass
              \* that read the row at or after that instant dispatches it
  faults,     \* exceptions the store has raised so far
  call        \* a call of a parser on its own: the function, its argument
              \* and, once it has returned, its value (NoCall in the engine)

vars ==
  << now, loop, store, out, pc, todo, readAt, fired, cancelled, snoozed, snz,
     faults, call >>

\* A row of core.database.Reminder as create() fills it.
Reminder(user, message, due, interval, count, clock) ==
  [ user_id |-> user,
    content |-> message,
    due_at |-> due,
    created_at |-> clock,
    last_sent_at |-> None,
    timezone |-> DEFAULT_TZ,
    is_recurring |-> interval # None,
    interval_seconds |-> interval,
    occurrences_left |-> count,
    active |-> TRUE ]

Output(op, kind, text, id, skipped) ==
  [op |-> op, kind |-> kind, text |-> text, id |-> id, skipped |-> skipped,
   rows |-> << >>]
NoOutput == Output("none", "none", "", 0, {})
\* A command's replies: a rejection message, an exception that escapes the
\* command, or its success message about reminder id.
Message(op, text) == Output(op, "message", text, 0, {})
Raised(op, exc) == Output(op, "exception", exc, 0, {})
Done(op, text, id) == Output(op, "done", text, id, {})
\* The reply of /reminder list: the ids of the rows it shows, in its order.
Listing(ids) == [Output("list", "done", "Your Reminders", 0, {}) EXCEPT !.rows = ids]

\* A parser's call: pending, then returned with its value.
Call(fn, arg) == [fn |-> fn, arg |-> arg, returned |-> FALSE, ret |-> None]
NoCall == Call("none", << >>)
Return(c, ret) == [c EXCEPT !.returned = TRUE, !.ret = ret]

\* ----------------------------------------------------------------- inputs
Users == {1, 2}
Messages == {"Hydrate"}

W_30s == << "3", "0", "s" >>
W_15d == << "1", "5", "d" >>
W_1m == << "1", "m" >>
W_2h == << " ", "2", "H" >>
W_soon == << "s", "o", "o", "n" >>
W_time == << "1", "1", ":", "5", "9", " ", "P", "M" >>
W_date == << "2", "0", "2", "5", "-", "1", "1", "-", "1", "2", " ",
             "2", ":", "3", "0", " ", "P", "M" >>
W_far == << "2", "0", "2", "5", "-", "1", "2", "-", "2", "5", " ",
            "0", "9", ":", "0", "0" >>
W_past == << "2", "0", "2", "5", "-", "1", "1", "-", "0", "9", " ",
             "0", "9", ":", "0", "0" >>

Whens == {W_30s, W_15d, W_1m, W_2h, W_soon, W_time, W_date, W_far, W_past}

\* The instants the clock takes.
Clocks == {StartTime + k * MIN_SECONDS : k \in 0..MaxTicks}
Repeats == {None, Some(W_1m), Some(W_30s), Some(W_soon)}
RepeatCounts == {None, Some(0), Some(1), Some(2)}
Durations == {W_1m, W_30s, W_15d, W_soon}
\* (repeat, repeat_count) as a request gives them.
Recurrences == Repeats \X RepeatCounts
\* The same of well-formed requests: a count only with a repeat.
WellFormed == {<< None, None >>, << Some(W_1m), None >>,
               << Some(W_1m), Some(1) >>, << Some(W_1m), Some(2) >>}

\* -------------------------------------------------------- parser inputs
\* Numbers as the texts write them, with the value each denotes.
Numbers ==
  { [txt |-> << "0" >>, val |-> 0], [txt |-> << "1" >>, val |-> 1],
    [txt |-> << "2" >>, val |-> 2], [txt |-> << "0", "5" >>, val |-> 5],
    [txt |-> << "3", "0" >>, val |-> 30] }

\* The amounts of days, hours, minutes and seconds of a duration text, each
\* a number or left out.
Amounts == {None} \cup {Some(n) : n \in Numbers}
DurationForms == Amounts \X Amounts \X Amounts \X Amounts

Part(amount, unit) == IF amount = None THEN << >> ELSE Append(Val(amount).txt, unit)

\* The text NdNhNmNs of a form, with the given letters for its units.
Compose(form, units) ==
  Part(form[1], units[1]) \o Part(form[2], units[2])
    \o Part(form[3], units[3]) \o Part(form[4], units[4])

\* The ways a form is written: lower case, upper case, mixed, and with
\* spaces around it.
Written(form) ==
  { Compose(form, << "d", "h", "m", "s" >>),
    Compose(form, << "D", "H", "M", "S" >>),
    Compose(form, << "d", "H", "m", "S" >>),
    << " " >> \o Compose(form, << "d", "h", "m", "s" >>) \o << " ", " " >> }

FormTexts == UNION {Written(form) : form \in DurationForms}

\* Texts that are not of the form: units out of order or repeated, a unit or
\* a number alone, other letters and signs, an inner space, nothing.
OtherTexts ==
  { << "1", "h", "1", "d" >>,
    << "3", "0", "s", "1", "m" >>,
    << "1", "m", "1", "h" >>,
    << "1", "s", "1", "d" >>,
    << "d" >>,
    << "1" >>,
    << "1", "1" >>,
    << "1", "x" >>,
    << "s", "o", "o", "n" >>,
    << "1", "h", " ", "3", "0", "m" >>,
    << "h", "1" >>,
    << "1", ".", "5", "h" >>,
    << "-", "1", "h" >>,
    << "1", "d", "d" >>,
    << "1", "d", "1", "d" >>,
    << "1", " ", "d" >>,
    << "0", "s" >>,
    << "0", "d", "0", "h" >>,
    << >>,
    << " " >>,
    << "d", "1", "h" >> }

KeywordTexts ==
  { << "h", "o", "u", "r", "l", "y" >>,
    << "d", "a", "i", "l", "y" >>,
    << "w", "e", "e", "k", "l", "y" >>,
    << "D", "a", "i", "l", "y" >>,
    << " ", "w", "e", "e", "k", "l", "y", " " >>,
    << "H", "O", "U", "R", "L", "Y" >> }

\* Absolute times with no date.
TimeTexts ==
  { << "1", "1", ":", "5", "9", " ", "P", "M" >>,
    << "9", ":", "0", "0", " ", "P", "M" >>,
    << "1", "2", ":", "0", "0", " ", "A", "M" >>,
    << "0", "0", ":", "3", "0" >>,
    << "2", ":", "3", "0", " ", "p", "m" >> }

DurationTexts == FormTexts \cup OtherTexts \cup KeywordTexts
RepeatTexts == {None} \cup {Some(t) : t \in DurationTexts}

\* The instants of the calls of parse_absolute_datetime: StartTime, and
\* 2025-11-10 01:00:00 and 17:00:00 UTC (20:00 the day before and 12:00 in
\* DEFAULT_TZ).
ParseClocks == {StartTime, 1 * 3600, 17 * 3600}

\* ----------------------------------------------------------------- create
\* Python's truth of an Optional string: None and "" are false.
Truthy(str) == str # None /\ Val(str) # << >>

Reject(text) == [kind |-> "reject", text |-> text, due |-> 0, interval |-> None]
Raise(exc) == [kind |-> "raise", text |-> exc, due |-> 0, interval |-> None]
Accept(due, interval) ==
  [kind |-> "accept", text |-> "Reminder Created", due |-> due, interval |-> interval]

\* create_recurrence without the minimum of line 314 on the interval.
create_recurrence_no_minimum(due_utc, repeat, repeat_count) ==
  LET interval_seconds == IF Truthy(repeat) THEN parse_repeat(repeat) ELSE None
  IN IF repeat_count # None /\ Val(repeat_count) <= 0
     THEN Reject("repeat_count must be a positive integer.")
     ELSE Accept(due_utc.t, interval_seconds)

\* create_recurrence without the check of line 320 on repeat_count.
create_recurrence_any_count(due_utc, repeat, repeat_count) ==
  LET interval_seconds == IF Truthy(repeat) THEN parse_repeat(repeat) ELSE None
      is_recurring == interval_seconds # None
  IN IF is_recurring /\ Val(interval_seconds) < MIN_SECONDS
     THEN Reject("Recurrence interval must be >= 1 minute.")
     ELSE Accept(due_utc.t, interval_seconds)

\* create(), lines 310-324: the recurrence checks, once due_utc is settled.
create_recurrence(due_utc, repeat, repeat_count) ==
  LET interval_seconds == IF Truthy(repeat) THEN parse_repeat(repeat) ELSE None
      is_recurring == interval_seconds # None
  IN IF is_recurring /\ Val(interval_seconds) < MIN_SECONDS
     THEN Reject("Recurrence interval must be >= 1 minute.")
     ELSE IF repeat_count # None /\ Val(repeat_count) <= 0
     THEN Reject("repeat_count must be a positive integer.")
     ELSE Accept(due_utc.t, interval_seconds)

\* create_check without the lower bound on a relative 'when'.
create_check_no_minimum(when, repeat, repeat_count, clock) ==
  LET relative_seconds == parse_duration(when)
      due_abs == parse_absolute_datetime(when, clock)
  IN IF relative_seconds # None
     THEN IF Val(relative_seconds) > MAX_RELATIVE_SECONDS
          THEN Reject("Maximum relative time is 14d.")
          ELSE create_recurrence(Naive(utcnow(clock).t + Val(relative_seconds)),
                                 repeat, repeat_count)
     ELSE IF due_abs = None
          THEN Reject("Failed to parse 'when'.")
          ELSE IF SubtractRaises(Val(due_abs), utcnow(clock))
          THEN Raise("TypeError")
          ELSE IF Val(due_abs).t - utcnow(clock).t < MIN_SECONDS
          THEN Reject("Absolute time must be at least 1 minute in the future.")
          ELSE IF Val(due_abs).t - utcnow(clock).t > MAX_RELATIVE_SECONDS
                  /\ ~Truthy(repeat)
          THEN Reject("Absolute one-off reminders limited to 14d ahead.")
          ELSE create_recurrence(Val(due_abs), repeat, repeat_count)

\* create(), lines 276-324: what the command decides when the clock reads
\* `clock`: a rejection message, an exception, or the row's due_at and
\* interval.
create_check(when, repeat, repeat_count, clock) ==
  LET relative_seconds == parse_duration(when)
      due_abs == parse_absolute_datetime(when, clock)
  IN IF relative_seconds # None
     THEN IF Val(relative_seconds) > MAX_RELATIVE_SECONDS
          THEN Reject("Maximum relative time is 14d.")
          ELSE IF Val(relative_seconds) < MIN_SECONDS
          THEN Reject("Minimum relative time is 1 minute.")
          ELSE create_recurrence(Naive(utcnow(clock).t + Val(relative_seconds)),
                                 repeat, repeat_count)
     ELSE IF due_abs = None
          THEN Reject("Failed to parse 'when'.")
          ELSE IF SubtractRaises(Val(due_abs), utcnow(clock))
          THEN Raise("TypeError")
          ELSE IF Val(due_abs).t - utcnow(clock).t < MIN_SECONDS
          THEN Reject("Absolute time must be at least 1 minute in the future.")
          ELSE IF Val(due_abs).t - utcnow(clock).t > MAX_RELATIVE_SECONDS
                  /\ ~Truthy(repeat)
          THEN Reject("Absolute one-off reminders limited to 14d ahead.")
          ELSE create_recurrence(Val(due_abs), repeat, repeat_count)

\* create_check over the inputs of the model, evaluated once.
create_checks ==
  [in \in Whens \X Repeats \X RepeatCounts \X Clocks |->
     create_check(in[1], in[2], in[3], in[4])] @@ << >>

\* /reminder create
create(user, when, message, repeat, repeat_count) ==
  LET res == create_checks[<< when, repeat, repeat_count, now >>]
  IN /\ IF res.kind = "accept"
        THEN /\ store' = Append(store, Reminder(user, message, res.due, res.interval,
                                                repeat_count, utcnow(now).t))
             /\ out' = Done("create", res.text, Len(store) + 1)
             /\ fired' = Append(fired, 0)
             /\ snz' = Append(snz, None)
        ELSE /\ out' = IF res.kind = "raise" THEN Raised("create", res.text)
                         ELSE Message("create", res.text)
             /\ UNCHANGED << store, fired, snz >>
     /\ UNCHANGED << call, now, loop, pc, todo, readAt, cancelled, snoozed, faults >>

\* ------------------------------------------------------------------- list
\* list_query without the `active` condition of line 368.
list_query_any_state(rows, user) ==
  LET sel == {i \in DOMAIN rows : rows[i].user_id = user}
  IN {q \in [1..Cardinality(sel) -> sel] :
        /\ \A a, b \in DOMAIN q : a # b => q[a] # q[b]
        /\ \A a, b \in DOMAIN q : a < b => rows[q[a]].due_at <= rows[q[b]].due_at}

\* Lines 366-371: the query's results, the ids of the active rows of the
\* user in ascending due_at. The order of rows of equal due_at is the
\* database's to choose.
list_query(rows, user) ==
  LET sel == {i \in DOMAIN rows : rows[i].user_id = user /\ rows[i].active}
  IN {q \in [1..Cardinality(sel) -> sel] :
        /\ \A a, b \in DOMAIN q : a # b => q[a] # q[b]
        /\ \A a, b \in DOMAIN q : a < b => rows[q[a]].due_at <= rows[q[b]].due_at}

\* /reminder list
list_reminders(user) ==
  /\ \E q \in list_query(store, user) :
       out' = IF q = << >>
              THEN Message("list", "You have no active reminders.")
              ELSE Listing(q)
  /\ UNCHANGED << call, now, loop, store, pc, todo, readAt, fired, cancelled,
                  snoozed, snz, faults >>

\* ------------------------------------------------------- cancel and snooze
\* cancel without the ownership check of lines 409-411.
cancel_any_user(user, reminder_id) ==
  /\ IF reminder_id \notin DOMAIN store
     THEN /\ out' = Message("cancel", "Reminder not found.")
          /\ UNCHANGED << store, cancelled >>
     ELSE IF FALSE
     THEN /\ out' = Message("cancel", "You do not own that reminder.")
          /\ UNCHANGED << store, cancelled >>
     ELSE /\ store' = [store EXCEPT ![reminder_id].active = FALSE]
          /\ out' = Done("cancel", "Reminder canceled.", reminder_id)
          /\ cancelled' = cancelled \cup {reminder_id}
  /\ UNCHANGED << call, now, loop, pc, todo, readAt, fired, snoozed, snz, faults >>

\* cancel flipping the active flag instead of clearing it.
cancel_toggles(user, reminder_id) ==
  /\ IF reminder_id \notin DOMAIN store
     THEN /\ out' = Message("cancel", "Reminder not found.")
          /\ UNCHANGED << store, cancelled >>
     ELSE IF store[reminder_id].user_id # user
     THEN /\ out' = Message("cancel", "You do not own that reminder.")
          /\ UNCHANGED << store, cancelled >>
     ELSE /\ store' = [store EXCEPT ![reminder_id].active = ~@]
          /\ out' = Done("cancel", "Reminder canceled.", reminder_id)
          /\ cancelled' = cancelled \cup {reminder_id}
  /\ UNCHANGED << call, now, loop, pc, todo, readAt, fired, snoozed, snz, faults >>

\* /reminder cancel
cancel(user, reminder_id) ==
  /\ IF reminder_id \notin DOMAIN store
     THEN /\ out' = Message("cancel", "Reminder not found.")
          /\ UNCHANGED << store, cancelled >>
     ELSE IF store[reminder_id].user_id # user
     THEN /\ out' = Message("cancel", "You do not own that reminder.")
          /\ UNCHANGED << store, cancelled >>
     ELSE /\ store' = [store EXCEPT ![reminder_id].active = FALSE]
          /\ out' = Done("cancel", "Reminder canceled.", reminder_id)
          /\ cancelled' = cancelled \cup {reminder_id}
  /\ UNCHANGED << call, now, loop, pc, todo, readAt, fired, snoozed, snz, faults >>

\* parse_duration over the snooze durations of the model, evaluated once.
snooze_seconds == [d \in Durations |-> parse_duration(d)] @@ << >>

\* snooze counting the duration from the old due_at instead of the clock.
snooze_from_due(user, reminder_id, duration) ==
  LET seconds == snooze_seconds[duration]
  IN /\ IF seconds = None \/ Val(seconds) < MIN_SECONDS
        THEN /\ out' = Message("snooze", "Invalid snooze duration (>=1m).")
             /\ UNCHANGED << store, snoozed, snz >>
        ELSE IF Val(seconds) > MAX_RELATIVE_SECONDS
        THEN /\ out' = Message("snooze", "Snooze exceeds maximum of 14 days.")
             /\ UNCHANGED << store, snoozed, snz >>
        ELSE IF reminder_id \notin DOMAIN store
        THEN /\ out' = Message("snooze", "Reminder not found.")
             /\ UNCHANGED << store, snoozed, snz >>
        ELSE IF store[reminder_id].user_id # user
        THEN /\ out' = Message("snooze", "You do not own that reminder.")
             /\ UNCHANGED << store, snoozed, snz >>
        ELSE /\ store' = [store EXCEPT
                            ![reminder_id].due_at = @ + Val(seconds)]
             /\ out' = Done("snooze", "Reminder snoozed.", reminder_id)
             /\ snoozed' = snoozed \cup {reminder_id}
             /\ snz' = [snz EXCEPT ![reminder_id] = Some(utcnow(now).t + Val(seconds))]
     /\ UNCHANGED << call, now, loop, pc, todo, readAt, fired, cancelled, faults >>

\* /reminder snooze
snooze(user, reminder_id, duration) ==
  LET seconds == snooze_seconds[duration]
  IN /\ IF seconds = None \/ Val(seconds) < MIN_SECONDS
        THEN /\ out' = Message("snooze", "Invalid snooze duration (>=1m).")
             /\ UNCHANGED << store, snoozed, snz >>
        ELSE IF Val(seconds) > MAX_RELATIVE_SECONDS
        THEN /\ out' = Message("snooze", "Snooze exceeds maximum of 14 days.")
             /\ UNCHANGED << store, snoozed, snz >>
        ELSE IF reminder_id \notin DOMAIN store
        THEN /\ out' = Message("snooze", "Reminder not found.")
             /\ UNCHANGED << store, snoozed, snz >>
        ELSE IF store[reminder_id].user_id # user
        THEN /\ out' = Message("snooze", "You do not own that reminder.")
             /\ UNCHANGED << store, snoozed, snz >>
        ELSE /\ store' = [store EXCEPT
                            ![reminder_id].due_at = utcnow(now).t + Val(seconds)]
             /\ out' = Done("snooze", "Reminder snoozed.", reminder_id)
             /\ snoozed' = snoozed \cup {reminder_id}
             /\ snz' = [snz EXCEPT ![reminder_id] = Some(utcnow(now).t + Val(seconds))]
     /\ UNCHANGED << call, now, loop, pc, todo, readAt, fired, cancelled, faults >>

\* ---------------------------------------------------------- dispatch loop
\* due_query without the `active` condition of line 470.
RECURSIVE due_query_any_row(_, _, _)
due_query_any_row(rows, clock, i) ==
  IF i > Len(rows) THEN << >>
  ELSE IF rows[i].due_at <= clock
       THEN << [id |-> i, row |-> rows[i]] >> \o due_query_any_row(rows, clock, i + 1)
       ELSE due_query_any_row(rows, clock, i + 1)

\* due_query selecting only the rows whose due_at is before the clock.
RECURSIVE due_query_strictly_past(_, _, _)
due_query_strictly_past(rows, clock, i) ==
  IF i > Len(rows) THEN << >>
  ELSE IF rows[i].active /\ rows[i].due_at < clock
       THEN << [id |-> i, row |-> rows[i]] >>
              \o due_query_strictly_past(rows, clock, i + 1)
       ELSE due_query_strictly_past(rows, clock, i + 1)

\* due_query, lines 467-475: the rows with active and due_at <= clock, from
\* id i on, each as the pass's in-memory copy.
RECURSIVE due_query(_, _, _)
due_query(rows, clock, i) ==
  IF i > Len(rows) THEN << >>
  ELSE IF rows[i].active /\ rows[i].due_at <= clock
       THEN << [id |-> i, row |-> rows[i]] >> \o due_query(rows, clock, i + 1)
       ELSE due_query(rows, clock, i + 1)

Ids(items) == {items[k].id : k \in 1..Len(items)}

\* dispatch_update retiring a counted reminder one occurrence late.
dispatch_update_one_late(r, clock) ==
  LET sent == [r EXCEPT !.last_sent_at = Some(clock)]
  IN IF r.is_recurring
     THEN IF r.occurrences_left # None
             /\ Val(r.occurrences_left) - 1 < 0
          THEN [sent EXCEPT !.occurrences_left = Some(Val(r.occurrences_left) - 1),
                            !.active = FALSE]
          ELSE [sent EXCEPT
                  !.occurrences_left =
                     IF r.occurrences_left # None
                     THEN Some(Val(r.occurrences_left) - 1) ELSE None,
                  !.due_at = r.due_at + Val(r.interval_seconds)]
     ELSE [sent EXCEPT !.active = FALSE]

\* dispatch_update catching up: a late recurring reminder is moved past the
\* clock in one update.
dispatch_update_catch_up(r, clock) ==
  LET sent == [r EXCEPT !.last_sent_at = Some(clock)]
      late == IF clock > r.due_at THEN clock - r.due_at ELSE 0
  IN IF r.is_recurring
     THEN IF r.occurrences_left # None
             /\ Val(r.occurrences_left) - 1 <= 0
          THEN [sent EXCEPT !.occurrences_left = Some(Val(r.occurrences_left) - 1),
                            !.active = FALSE]
          ELSE [sent EXCEPT
                  !.occurrences_left =
                     IF r.occurrences_left # None
                     THEN Some(Val(r.occurrences_left) - 1) ELSE None,
                  !.due_at = r.due_at + Val(r.interval_seconds)
                               * ((late \div Val(r.interval_seconds)) + 1)]
     ELSE [sent EXCEPT !.active = FALSE]

\* dispatch_update stamping created_at along with last_sent_at.
dispatch_update_restamps(r, clock) ==
  LET sent == [r EXCEPT !.last_sent_at = Some(clock), !.created_at = clock]
  IN IF r.is_recurring
     THEN IF r.occurrences_left # None
             /\ Val(r.occurrences_left) - 1 <= 0
          THEN [sent EXCEPT !.occurrences_left = Some(Val(r.occurrences_left) - 1),
                            !.active = FALSE]
          ELSE [sent EXCEPT
                  !.occurrences_left =
                     IF r.occurrences_left # None
                     THEN Some(Val(r.occurrences_left) - 1) ELSE None,
                  !.due_at = r.due_at + Val(r.interval_seconds)]
     ELSE [sent EXCEPT !.active = FALSE]

\* Lines 505-520: the row the pass saves for its copy r of a record.
dispatch_update(r, clock) ==
  LET sent == [r EXCEPT !.last_sent_at = Some(clock)]
  IN IF r.is_recurring
     THEN IF r.occurrences_left # None
             /\ Val(r.occurrences_left) - 1 <= 0
          THEN [sent EXCEPT !.occurrences_left = Some(Val(r.occurrences_left) - 1),
                            !.active = FALSE]
          ELSE [sent EXCEPT
                  !.occurrences_left =
                     IF r.occurrences_left # None
                     THEN Some(Val(r.occurrences_left) - 1) ELSE None,
                  !.due_at = r.due_at + Val(r.interval_seconds)]
     ELSE [sent EXCEPT !.active = FALSE]

\* r.save(): peewee writes every field of the in-memory copy to row r.id.
save(rows, item, row) == [rows EXCEPT ![item.id] = row]

\* The tables after the pass that read the store at `rd` saves its update of
\* one record.
Fire(tabs, item, clock, rd) ==
  [ store |-> save(tabs.store, item, dispatch_update(item.row, clock)),
    fired |-> [tabs.fired EXCEPT ![item.id] = @ + 1],
    snz |-> [tabs.snz EXCEPT ![item.id] =
               IF @ # None /\ rd >= Val(@) THEN None ELSE @] ]

\* FireAll leaving alone the records whose send is skipped.
FireAll_without_update(tabs, items, clock, rd) == tabs

\* Lines 481-521 with no channel: get_channel returns None, nothing is
\* awaited, and every record left is updated at once.
RECURSIVE FireAll(_, _, _, _)
FireAll(tabs, items, clock, rd) ==
  IF items = << >> THEN tabs
  ELSE FireAll(Fire(tabs, Head(items), clock, rd), Tail(items), clock, rd)

\* The for loop from `items` on, up to its next await, in a pass that read
\* the store at `rd`: when get_channel resolves the channel the pass suspends
\* in send for the first record; when it returns None the pass skips every
\* send and runs to its end.
Proceed(tabs, items, rd, resolves) ==
  IF items # << >> /\ resolves
  THEN /\ pc' = "sending"
       /\ todo' = items
       /\ readAt' = rd
       /\ store' = tabs.store
       /\ fired' = tabs.fired
       /\ snz' = tabs.snz
  ELSE LET end == FireAll(tabs, items, utcnow(now).t, rd)
       IN /\ pc' = "idle"
          /\ todo' = << >>
          /\ readAt' = 0
          /\ store' = end.store
          /\ fired' = end.fired
          /\ snz' = end.snz

\* The sends a run of the loop over `items` skips.
Skipped(items, resolves) == IF resolves THEN {} ELSE Ids(items)

\* dispatch_loop, lines 464-481: a pass starts, reads the due records and
\* runs to its first await. A pass that finds nothing due changes nothing.
dispatch_loop(resolves) ==
  LET reminders_to_process == due_query(store, utcnow(now).t, 1)
  IN /\ pc = "idle"
     /\ loop = "running"
     /\ reminders_to_process # << >>
     /\ Proceed([store |-> store, fired |-> fired, snz |-> snz],
                reminders_to_process, utcnow(now).t, resolves)
     /\ out' = IF resolves THEN NoOutput
               ELSE Output("dispatch", "skipped", "", 0,
                           Skipped(reminders_to_process, resolves))
     /\ UNCHANGED << call, now, loop, cancelled, snoozed, faults >>

\* send_returns with the update inside the try of the send: a failed send
\* leaves the record as it was.
send_returns_update_on_success(delivered, resolves) ==
  /\ pc = "sending"
  /\ out' = Output("dispatch", IF delivered THEN "delivered" ELSE "failed",
                   Head(todo).row.content, Head(todo).id,
                   Skipped(Tail(todo), resolves))
  /\ Proceed(IF delivered
             THEN Fire([store |-> store, fired |-> fired, snz |-> snz],
                       Head(todo), utcnow(now).t, readAt)
             ELSE [store |-> store, fired |-> fired, snz |-> snz],
             Tail(todo), readAt, resolves)
  /\ UNCHANGED << call, now, loop, cancelled, snoozed, faults >>

\* Lines 497-521: send returns (delivered) or raises (logged at line 501),
\* the record's update is saved, and the pass goes on to the next record.
send_returns(delivered, resolves) ==
  /\ pc = "sending"
  /\ out' = Output("dispatch", IF delivered THEN "delivered" ELSE "failed",
                   Head(todo).row.content, Head(todo).id,
                   Skipped(Tail(todo), resolves))
  /\ Proceed(Fire([store |-> store, fired |-> fired, snz |-> snz],
                  Head(todo), utcnow(now).t, readAt),
             Tail(todo), readAt, resolves)
  /\ UNCHANGED << call, now, loop, cancelled, snoozed, faults >>

\* save_raises without the handler of line 523: the exception leaves the for
\* loop and the pass, and the records left are not processed.
save_raises_unhandled(resolves) ==
  /\ pc = "sending"
  /\ faults < MaxFaults
  /\ faults' = faults + 1
  /\ out' = Output("dispatch", "error", Head(todo).row.content, Head(todo).id, {})
  /\ pc' = "idle"
  /\ todo' = << >>
  /\ readAt' = 0
  /\ loop' = "stopped"
  /\ UNCHANGED << call, now, store, fired, snz, cancelled, snoozed >>

\* Lines 503-524 under a failing store: send has returned, then connect or
\* save raises; the handler at line 523 logs it, the row is not written, and
\* the for loop goes on to the next record.
save_raises(resolves) ==
  /\ pc = "sending"
  /\ faults < MaxFaults
  /\ faults' = faults + 1
  /\ out' = Output("dispatch", "error", Head(todo).row.content, Head(todo).id,
                   Skipped(Tail(todo), resolves))
  /\ Proceed([store |-> store, fired |-> fired, snz |-> snz],
             Tail(todo), readAt, resolves)
  /\ UNCHANGED << call, now, loop, cancelled, snoozed >>

\* Lines 465-475 under a failing store: connect or the query raises outside
\* the try of the for loop, the exception leaves the loop body and
\* discord.ext.tasks ends the task.
query_raises ==
  /\ pc = "idle"
  /\ loop = "running"
  /\ faults < MaxFaults
  /\ faults' = faults + 1
  /\ loop' = "stopped"
  /\ out' = NoOutput
  /\ UNCHANGED << call, now, store, pc, todo, readAt, fired, cancelled, snoozed, snz >>

\* ------------------------------------------------------------ environment
\* The clock moves on by a minute.
Tick ==
  /\ now + MIN_SECONDS \in Clocks
  /\ now' = now + MIN_SECONDS
  /\ out' = NoOutput
  /\ UNCHANGED << call, loop, store, pc, todo, readAt, fired, cancelled, snoozed,
                  snz, faults >>

Init ==
  /\ now = StartTime
  /\ loop = "running"
  /\ store = << >>
  /\ out = NoOutput
  /\ pc = "idle"
  /\ todo = << >>
  /\ readAt = 0
  /\ fired = << >>
  /\ cancelled = {}
  /\ snoozed = {}
  /\ snz = << >>
  /\ faults = 0
  /\ call = NoCall

\* The commands, with their users and arguments drawn from the given menus,
\* while the table holds at most `rows` rows.
Command(creators, users, whens, recurrences, durations, rows) ==
  \/ \E user \in creators, when \in whens, message \in Messages,
        recurrence \in recurrences :
       /\ create(user, when, message, recurrence[1], recurrence[2])
       /\ Len(store') <= rows
  \/ \E user \in users, reminder_id \in 1..rows : cancel(user, reminder_id)
  \/ \E user \in users, reminder_id \in 1..rows, duration \in durations :
       snooze(user, reminder_id, duration)

\* The dispatch loop and the clock.
Dispatch ==
  \/ \E resolves \in BOOLEAN : dispatch_loop(resolves)
  \/ \E delivered \in BOOLEAN, resolves \in BOOLEAN : send_returns(delivered, resolves)
  \/ Tick

\* The engine under the well-formed requests of one user: every create is
\* accepted.
Next ==
  \/ Command({1}, {1}, {W_1m}, WellFormed, {W_1m}, MaxReminders)
  \/ Dispatch

Spec == Init /\ [][Next]_vars

\* The scheduling of the code: discord.ext.tasks runs dispatch_loop every
\* DISPATCH_INTERVAL seconds for as long as the task lives, and an awaited
\* send returns or raises.
Fairness ==
  /\ WF_vars(\E resolves \in BOOLEAN : dispatch_loop(resolves))
  /\ WF_vars(\E delivered \in BOOLEAN, resolves \in BOOLEAN :
               send_returns(delivered, resolves))

\* The engine under the requests of one user for a one-off reminder and for
\* a recurring one without a count.
NextLive ==
  \/ Command({1}, {1}, {W_1m}, {<< None, None >>, << Some(W_1m), None >>},
             {W_1m}, MaxReminders)
  \/ Dispatch

SpecLive == Init /\ [][NextLive]_vars /\ Fairness

\* Every request of the menus while the clock runs: user 1 creates, users 1
\* and 2 cancel and snooze; the dispatch loop has not started.
NextRequests ==
  \/ Command({1}, Users, Whens \ {W_1m}, Recurrences \ (Repeats \X {Some(1)}),
             Durations, MaxReminders)
  \/ Tick

SpecRequests == Init /\ [][NextRequests]_vars

\* The dispatch loop over a store that may raise, with up to MaxBatch
\* reminders of one user.
NextFault ==
  \/ \E recurrence \in {<< None, None >>, << Some(W_1m), None >>} :
       /\ create(1, W_1m, "Hydrate", recurrence[1], recurrence[2])
       /\ Len(store') <= MaxBatch
  \/ Dispatch
  \/ \E resolves \in BOOLEAN : save_raises(resolves)
  \/ query_raises

SpecFault == Init /\ [][NextFault]_vars

\* The creates with a relative 'when' below, above and inside the allowed
\* range, under every repeat and repeat_count, while the clock runs.
NextRange ==
  \/ \E when \in {W_30s, W_15d, W_2h}, recurrence \in Recurrences :
       /\ create(1, when, "Hydrate", recurrence[1], recurrence[2])
       /\ Len(store') <= MaxReminders
  \/ Tick

SpecRange == Init /\ [][NextRange]_vars

\* The reminders the two users of SpecCancel and SpecSnooze create: user 1
\* a one-off, user 2 a counted recurring one, both due in two hours.
CreateOwned ==
  \E k \in {<< 1, None, None >>, << 2, Some(W_1m), Some(2) >>} :
    /\ create(k[1], W_2h, "Hydrate", k[2], k[3])
    /\ Len(store') <= MaxBatch

\* The cancels of two users on a table of up to MaxBatch reminders, some of
\* them snoozed by a minute, while the clock runs.
NextCancel ==
  \/ CreateOwned
  \/ \E user \in Users, reminder_id \in 1..MaxBatch : cancel(user, reminder_id)
  \/ \E reminder_id \in 1..MaxBatch : snooze(1, reminder_id, W_1m)
  \/ Tick

SpecCancel == Init /\ [][NextCancel]_vars

\* The snoozes of two users, with every duration of the menu, on a table of
\* up to MaxBatch reminders, while the clock runs.
NextSnooze ==
  \/ CreateOwned
  \/ \E user \in Users, reminder_id \in 1..MaxBatch, duration \in Durations :
       snooze(user, reminder_id, duration)
  \/ Tick

SpecSnooze == Init /\ [][NextSnooze]_vars

\* The lists of two users over a table of up to MaxBatch one-off reminders
\* due in a minute or in two hours, some of them cancelled.
NextList ==
  \/ \E user \in Users, when \in {W_1m, W_2h} :
       /\ create(user, when, "Hydrate", None, None)
       /\ Len(store') <= MaxBatch
  \/ \E user \in Users, reminder_id \in 1..MaxBatch : cancel(user, reminder_id)
  \/ \E user \in Users : list_reminders(user)

SpecList == Init /\ [][NextList]_vars

\* (repeat, repeat_count) of the requests of SpecRecords: none, a repeat that
\* does not parse, one below the minimum, a count of zero, and counted
\* recurrences of a minute.
RecordRecurrences ==
  {<< None, None >>, << Some(W_soon), None >>, << Some(W_30s), None >>,
   << Some(W_1m), Some(0) >>, << Some(W_1m), Some(1) >>, << Some(W_1m), Some(2) >>}

\* The engine with the list command, under requests that create rejects and
\* requests it accepts.
NextRecords ==
  \/ Command({1}, {1}, {W_1m}, RecordRecurrences, {W_1m}, MaxReminders)
  \/ list_reminders(1)
  \/ Dispatch

SpecRecords == Init /\ [][NextRecords]_vars

\* The dispatch loop over batches of up to MaxBatch reminders of one user,
\* one-off or recurring without a count, which the user cancels and snoozes
\* while passes are under way.
NextBatch ==
  \/ \E recurrence \in {<< None, None >>, << Some(W_1m), None >>} :
       /\ create(1, W_1m, "Hydrate", recurrence[1], recurrence[2])
       /\ Len(store') <= MaxBatch
  \/ \E reminder_id \in 1..MaxBatch : cancel(1, reminder_id)
  \/ \E reminder_id \in 1..MaxBatch : snooze(1, reminder_id, W_1m)
  \/ Dispatch

SpecBatch == Init /\ [][NextBatch]_vars

\* ---------------------------------------------------------------- parsers
\* A parser is called on its own: the call is drawn at the start and the
\* step is its return.
parse_duration_returns ==
  /\ call.fn = "parse_duration" /\ ~call.returned
  /\ call' = Return(call, parse_duration(call.arg))
  /\ UNCHANGED << now, loop, store, out, pc, todo, readAt, fired, cancelled,
                  snoozed, snz, faults >>

parse_repeat_returns ==
  /\ call.fn = "parse_repeat" /\ ~call.returned
  /\ call' = Return(call, parse_repeat(call.arg))
  /\ UNCHANGED << now, loop, store, out, pc, todo, readAt, fired, cancelled,
                  snoozed, snz, faults >>

parse_absolute_datetime_returns ==
  /\ call.fn = "parse_absolute_datetime" /\ ~call.returned
  /\ call' = Return(call, parse_absolute_datetime(call.arg, now))
  /\ UNCHANGED << now, loop, store, out, pc, todo, readAt, fired, cancelled,
                  snoozed, snz, faults >>

InitParse ==
  /\ loop = "running" /\ store = << >> /\ out = NoOutput /\ pc = "idle"
  /\ todo = << >> /\ readAt = 0 /\ fired = << >> /\ cancelled = {}
  /\ snoozed = {} /\ snz = << >> /\ faults = 0
  /\ \/ /\ now = StartTime
        /\ \/ \E t \in DurationTexts : call = Call("parse_duration", t)
           \/ \E r \in RepeatTexts : call = Call("parse_repeat", r)
     \/ /\ now \in ParseClocks
        /\ \E t \in TimeTexts \cup {W_date} :
             call = Call("parse_absolute_datetime", t)

NextParse ==
  \/ parse_duration_returns
  \/ parse_repeat_returns
  \/ parse_absolute_datetime_returns

SpecParse == InitParse /\ [][NextParse]_vars

\* ================================================================= claims
\* The pass is suspended in the send of reminder id's notification.
Delivering(id) == pc = "sending" /\ Head(todo).id = id

\* No cancel or snooze has succeeded on reminder id.
Untouched(id) == id \notin cancelled \cup snoozed

\* C1: a recurring reminder with a finite count that is never cancelled or
\* snoozed is changed by dispatches only; a dispatch that finds more than one
\* occurrence left takes one off and moves due_at on by the interval; the
\* dispatch of the last occurrence sets occurrences_left = 0 and active =
\* false and leaves due_at alone; a retired reminder is neither delivered nor
\* dispatched again. Occurrences left plus dispatches made stays what
\* repeat_count was, so the reminder is dispatched exactly repeat_count times.
C1_CountdownStep ==
  [][\A id \in DOMAIN store :
       LET r == store[id]
           k == Val(r.occurrences_left)
       IN (r.is_recurring /\ r.occurrences_left # None
             /\ Untouched(id) /\ Untouched(id)')
          => /\ fired'[id] \in {fired[id], fired[id] + 1}
             /\ fired'[id] = fired[id] => store'[id] = r
             /\ fired'[id] = fired[id] + 1 =>
                  /\ r.active /\ k >= 1
                  /\ store'[id].last_sent_at = Some(now)
                  /\ store'[id].occurrences_left = Some(k - 1)
                  /\ IF k > 1
                     THEN /\ store'[id].active
                          /\ store'[id].due_at = r.due_at + Val(r.interval_seconds)
                     ELSE /\ ~store'[id].active
                          /\ store'[id].due_at = r.due_at
             /\ Delivering(id)' => store'[id].active
             /\ store'[id].active <=> Val(store'[id].occurrences_left) >= 1]_vars

\* C1's case: a reminder created with repeat_count = 2 has been dispatched
\* twice and is retired, and the clock has passed its due_at.
C1_Witness ==
  \E id \in DOMAIN store :
    /\ Untouched(id) /\ store[id].is_recurring
    /\ store[id].occurrences_left = Some(0) /\ ~store[id].active
    /\ fired[id] = 2 /\ store[id].due_at <= now /\ pc = "idle"

\* A one-off reminder that has been dispatched, or a recurring one whose
\* countdown has reached zero.
Terminal(id) ==
  \/ ~store[id].is_recurring /\ fired[id] >= 1
  \/ store[id].is_recurring /\ store[id].occurrences_left # None
       /\ Val(store[id].occurrences_left) <= 0

\* C2: a reminder in a terminal state is inactive and no send of it is in
\* flight, and every step (cancel, snooze, dispatch, clock) leaves it
\* terminal and undispatched.
C2_TerminalStaysInactive ==
  [][/\ \A id \in DOMAIN store' :
          Terminal(id)' => ~store'[id].active /\ ~Delivering(id)'
     /\ \A id \in DOMAIN store :
          Terminal(id) => Terminal(id)' /\ fired'[id] = fired[id]]_vars

\* C2's case: a dispatched one-off reminder that was snoozed and cancelled,
\* with its due_at passed again while the loop is idle.
C2_Witness ==
  \E id \in DOMAIN store :
    /\ Terminal(id) /\ id \in snoozed /\ id \in cancelled
    /\ store[id].due_at <= now /\ pc = "idle"

\* C3: a reminder that a cancel has succeeded on is inactive in every
\* later state.
C3_NoLostCancel == \A id \in cancelled : ~store[id].active

\* C4: after a snooze the reminder's due_at is what the snooze set, until the
\* next snooze or a dispatch by a pass that read the row at or after that
\* instant.
C4_NoLostSnooze ==
  \A id \in DOMAIN store : snz[id] # None => store[id].due_at = Val(snz[id])

\* C5: when the send of a due reminder fails, the step saves the update a
\* successful send is followed by: last_sent_at is the clock, a one-off is
\* retired, a recurring reminder loses an occurrence and is moved on by its
\* interval, or retired with its last occurrence; the reminder is then not
\* active at the due time the send was for.
C5_FailedSendStillUpdates ==
  [][(out'.op = "dispatch" /\ out'.kind = "failed") =>
       LET id == out'.id
           r == Head(todo).row
           w == store'[id]
           last == r.occurrences_left # None /\ Val(r.occurrences_left) <= 1
       IN /\ pc = "sending" /\ Head(todo).id = id
          /\ fired'[id] = fired[id] + 1
          /\ w.last_sent_at = Some(now)
          /\ ~r.is_recurring => ~w.active /\ w.occurrences_left = r.occurrences_left
          /\ r.is_recurring /\ last =>
               ~w.active /\ w.occurrences_left = Some(Val(r.occurrences_left) - 1)
          /\ r.is_recurring /\ ~last =>
               /\ w.active = r.active
               /\ w.due_at = r.due_at + Val(r.interval_seconds)
               /\ w.occurrences_left =
                    IF r.occurrences_left = None THEN None
                    ELSE Some(Val(r.occurrences_left) - 1)
          /\ ~(w.active /\ w.due_at = r.due_at)
          /\ ~(pc' = "sending" /\ Head(todo').id = id)]_vars

\* C5's case: the send of a recurring reminder has just failed and the
\* reminder has been moved on to its next due time.
C5_Witness ==
  /\ out.op = "dispatch" /\ out.kind = "failed"
  /\ store[out.id].is_recurring /\ store[out.id].active
  /\ store[out.id].last_sent_at = Some(now)
  /\ store[out.id].due_at > now

\* The records of a sequence of the pass's copies.
Copies(items) == {items[k] : k \in 1..Len(items)}

\* C6: when the update of the record being sent raises, and in every other
\* step of a pass, each other record the pass still holds is either kept for
\* its turn or has its update saved in that very step; the exception leaves
\* the loop running.
C6_BatchIsolation ==
  [][pc = "sending" =>
       /\ \A k \in 2..Len(todo) :
            \/ todo[k] \in Copies(todo') /\ pc' = "sending"
            \/ /\ fired'[todo[k].id] = fired[todo[k].id] + 1
               /\ store'[todo[k].id].last_sent_at = Some(now)
       /\ out'.kind = "error" => loop' = "running"]_vars

\* C6's case: the update of reminder 1 has just raised and the same pass is
\* now sending reminder 2.
C6_Witness ==
  /\ out.op = "dispatch" /\ out.kind = "error" /\ out.id = 1
  /\ Delivering(2) /\ fired[1] = 0 /\ loop = "running"

\* parse_duration and parse_absolute_datetime over the 'when' strings and
\* clocks of the model, evaluated once.
when_seconds == [w \in Whens |-> parse_duration(w)] @@ << >>

when_instants ==
  [w \in Whens, c \in Clocks |-> parse_absolute_datetime(w, c)] @@ << >>

\* A recurrence that passes create's checks of lines 310-324.
ValidRecurrence(repeat, repeat_count) ==
  /\ parse_repeat(repeat) = None \/ Val(parse_repeat(repeat)) >= MIN_SECONDS
  /\ repeat_count = None \/ Val(repeat_count) >= 1

\* The step appends one row and leaves the rows there were alone.
OneRowAdded ==
  /\ Len(store') = Len(store) + 1
  /\ \A i \in DOMAIN store : store'[i] = store[i]

RangeReasons ==
  {"Minimum relative time is 1 minute.", "Maximum relative time is 14d."}

\* C7: a create whose relative 'when' parses to less than 60 seconds or more
\* than 14 days is answered with a range message, whatever repeat and
\* repeat_count it gives, and leaves the table as it was.
C7_RelativeOutOfRange ==
  [][\A when \in Whens :
       LET d == when_seconds[when]
       IN (d # None /\ (Val(d) < MIN_SECONDS \/ Val(d) > MAX_RELATIVE_SECONDS))
          => \A user \in Users, message \in Messages, recurrence \in Recurrences :
               create(user, when, message, recurrence[1], recurrence[2])
               => /\ out'.op = "create" /\ out'.kind = "message"
                  /\ out'.text \in RangeReasons
                  /\ store' = store]_vars

\* C7's case: a create has just been refused for a 'when' under a minute.
C7_Witness ==
  /\ out = Message("create", "Minimum relative time is 1 minute.")
  /\ create_check(W_30s, Some(W_1m), None, now).kind = "reject"

\* C8: a create with a relative 'when' of d seconds in [60 s, 14 d] and no
\* repeat (with a repeat_count, if any, that is positive) adds exactly one
\* row, with due_at = now + d, the requester as owner, active, never sent,
\* not recurring and occurrences_left = None, and returns the row's id.
C8_CreateRelativeOneOff ==
  [][\A user \in Users, when \in Whens, message \in Messages,
        repeat_count \in RepeatCounts :
       LET d == when_seconds[when]
       IN (/\ d # None
           /\ Val(d) >= MIN_SECONDS /\ Val(d) <= MAX_RELATIVE_SECONDS
           /\ repeat_count = None \/ Val(repeat_count) >= 1
           /\ create(user, when, message, None, repeat_count))
          => /\ OneRowAdded
             /\ out' = Done("create", "Reminder Created", Len(store'))
             /\ LET r == store'[Len(store')]
                IN /\ r.due_at = now + Val(d)
                   /\ r.user_id = user
                   /\ r.active
                   /\ r.last_sent_at = None
                   /\ ~r.is_recurring
                   /\ r.occurrences_left = None]_vars

\* An absolute 'when': no relative duration, and a date/time that parses.
IsAbsolute(when, clock) ==
  when_seconds[when] = None /\ when_instants[when, clock] # None

\* C9: a create with an absolute 'when' that parses to an instant at least
\* 60 seconds ahead, and at most 14 days ahead when no repeat is given (the
\* recurrence being one that passes its own checks), adds a row that is
\* active and has that instant as its due_at.
C9_CreateAbsolute ==
  [][\A user \in Users, when \in Whens, message \in Messages,
        recurrence \in Recurrences :
       (/\ IsAbsolute(when, now)
        /\ LET ahead == Val(when_instants[when, now]).t - now
           IN /\ ahead >= MIN_SECONDS
              /\ Truthy(recurrence[1]) \/ ahead <= MAX_RELATIVE_SECONDS
        /\ ValidRecurrence(recurrence[1], recurrence[2])
        /\ Len(store) < MaxReminders
        /\ create(user, when, message, recurrence[1], recurrence[2]))
       => /\ OneRowAdded
          /\ store'[Len(store')].active
          /\ store'[Len(store')].due_at
               = Val(when_instants[when, now]).t]_vars

\* C10: a create with an absolute 'when' less than 60 seconds ahead, or more
\* than 14 days ahead with no repeat, is answered with a message (no
\* exception leaves the command) and adds no row; one more than 14 days
\* ahead with a valid recurrence adds a row.
C10_AbsoluteOutOfRange ==
  [][\A user \in Users, when \in Whens, message \in Messages,
        recurrence \in Recurrences :
       (IsAbsolute(when, now)
          /\ create(user, when, message, recurrence[1], recurrence[2]))
       => LET ahead == Val(when_instants[when, now]).t - now
          IN /\ (ahead < MIN_SECONDS
                   \/ (ahead > MAX_RELATIVE_SECONDS /\ ~Truthy(recurrence[1])))
                => /\ out'.op = "create" /\ out'.kind = "message"
                   /\ store' = store
             /\ (/\ ahead > MAX_RELATIVE_SECONDS
                 /\ parse_repeat(recurrence[1]) # None
                 /\ ValidRecurrence(recurrence[1], recurrence[2])
                 /\ Len(store) < MaxReminders)
                => OneRowAdded]_vars

\* A relative 'when' inside the allowed range.
InRange(when) ==
  /\ when_seconds[when] # None
  /\ Val(when_seconds[when]) >= MIN_SECONDS
  /\ Val(when_seconds[when]) <= MAX_RELATIVE_SECONDS

\* C11: a create whose 'repeat' is a non-empty string that parse_repeat
\* cannot parse (the 'when' being a relative time in range and the
\* repeat_count, if any, positive) is answered with a message and adds no
\* row.
C11_BadRepeatRejected ==
  [][\A when \in Whens :
       InRange(when)
       => \A user \in Users, message \in Messages, recurrence \in Recurrences :
            (/\ Truthy(recurrence[1])
             /\ parse_repeat(recurrence[1]) = None
             /\ recurrence[2] = None \/ Val(recurrence[2]) >= 1
             /\ create(user, when, message, recurrence[1], recurrence[2]))
            => /\ out'.op = "create" /\ out'.kind = "message"
               /\ store' = store]_vars

\* C12: a create whose recurrence interval parses to less than 60 seconds,
\* or whose repeat_count is given and is <= 0, is answered with a message
\* (no exception leaves the command) and adds no row.
C12_BadRecurrenceRejected ==
  [][\A when \in Whens, user \in Users, message \in Messages,
        recurrence \in Recurrences :
       (/\ \/ /\ parse_repeat(recurrence[1]) # None
              /\ Val(parse_repeat(recurrence[1])) < MIN_SECONDS
           \/ recurrence[2] # None /\ Val(recurrence[2]) <= 0
        /\ create(user, when, message, recurrence[1], recurrence[2]))
       => /\ out'.op = "create" /\ out'.kind = "message"
          /\ store' = store]_vars

\* The ids of the active reminders of a user.
Owned(user) == {i \in DOMAIN store : store[i].user_id = user /\ store[i].active}

\* C13: list replies with exactly the ids of the requester's active
\* reminders, each once, in ascending due_at (an empty list as the "no
\* active reminders" message), and changes no record.
C13_ListOwnedActiveSorted ==
  [][\A user \in Users :
       list_reminders(user)
       => LET q == out'.rows
          IN /\ out'.op = "list"
             /\ {q[k] : k \in DOMAIN q} = Owned(user)
             /\ Len(q) = Cardinality(Owned(user))
             /\ \A a, b \in DOMAIN q : a < b => store[q[a]].due_at <= store[q[b]].due_at
             /\ (Owned(user) = {}) <=> (out'.kind = "message")
             /\ store' = store]_vars

\* C13's case: a list has just shown reminder 2 before reminder 1, because
\* it is due earlier.
C13_Witness ==
  /\ out.op = "list" /\ out.rows = << 2, 1 >>
  /\ store[2].due_at < store[1].due_at

\* C14: a cancel of an id with no row replies NotFound, one by a user who
\* is not the row's owner replies NotOwner, and both leave the table as it
\* was; any other cancel sets active = FALSE on that row and changes no
\* other field and no other row.
C14_CancelFrame ==
  [][\A user \in Users, reminder_id \in 1..MaxBatch :
       cancel(user, reminder_id)
       => IF reminder_id \notin DOMAIN store
          THEN out' = Message("cancel", "Reminder not found.") /\ store' = store
          ELSE IF store[reminder_id].user_id # user
          THEN /\ out' = Message("cancel", "You do not own that reminder.")
               /\ store' = store
          ELSE /\ out'.kind = "done" /\ out'.id = reminder_id
               /\ store' = [store EXCEPT ![reminder_id].active = FALSE]]_vars

\* C14's case: a cancel of reminder 1 by a user who does not own it has just
\* been refused, and the reminder is still active beside a second one.
C14_Witness ==
  /\ out = Message("cancel", "You do not own that reminder.")
  /\ Len(store) >= 2 /\ store[1].active /\ store[2].user_id # store[1].user_id

\* C15: a cancel by the owner of a reminder that is already inactive
\* succeeds and leaves the table as it was.
C15_CancelIdempotent ==
  [][\A user \in Users, reminder_id \in DOMAIN store :
       (/\ store[reminder_id].user_id = user
        /\ ~store[reminder_id].active
        /\ cancel(user, reminder_id))
       => /\ out' = Done("cancel", "Reminder canceled.", reminder_id)
          /\ store' = store]_vars

\* C15's case: the latest step is a successful cancel of a one-off reminder
\* that a dispatch pass had retired before.
C15_Witness ==
  /\ out.op = "cancel" /\ out.kind = "done"
  /\ ~store[out.id].is_recurring /\ fired[out.id] >= 1
  /\ ~store[out.id].active

InvalidDuration ==
  {"Invalid snooze duration (>=1m).", "Snooze exceeds maximum of 14 days."}

\* C16: a snooze with an unparseable or out-of-range duration replies
\* InvalidDuration, one of an id with no row NotFound, one by a user who is
\* not the owner NotOwner, and all three leave the table as it was; any
\* other snooze, of d seconds, sets due_at = now + d on that row and changes
\* no other field and no other row.
C16_SnoozeFrame ==
  [][\A user \in Users, reminder_id \in 1..MaxBatch, duration \in Durations :
       snooze(user, reminder_id, duration)
       => LET d == snooze_seconds[duration]
          IN IF d = None \/ Val(d) < MIN_SECONDS \/ Val(d) > MAX_RELATIVE_SECONDS
             THEN /\ out'.op = "snooze" /\ out'.kind = "message"
                  /\ out'.text \in InvalidDuration
                  /\ store' = store
             ELSE IF reminder_id \notin DOMAIN store
             THEN out' = Message("snooze", "Reminder not found.") /\ store' = store
             ELSE IF store[reminder_id].user_id # user
             THEN /\ out' = Message("snooze", "You do not own that reminder.")
                  /\ store' = store
             ELSE /\ out'.kind = "done" /\ out'.id = reminder_id
                  /\ store' = [store EXCEPT ![reminder_id].due_at = now + Val(d)]]_vars

\* C16's case: a recurring reminder has just been snoozed, after the clock
\* has moved, beside a reminder of another user.
C16_Witness ==
  /\ out.op = "snooze" /\ out.kind = "done"
  /\ now > StartTime /\ Len(store) >= 2
  /\ store[out.id].is_recurring
  /\ store[out.id].due_at = now + MIN_SECONDS
  /\ store[out.id].occurrences_left = Some(2)
  /\ \E i \in DOMAIN store : store[i].user_id # store[out.id].user_id

\* C17: a snooze by the owner of an inactive reminder, with a duration d in
\* range, succeeds, sets due_at = now + d and leaves active = FALSE; and the
\* reminder that has just been snoozed while inactive is still inactive
\* after the next step, whatever step it is, and no pass that starts then
\* selects it.
C17_SnoozeKeepsInactive ==
  [][/\ \A id \in DOMAIN store, duration \in Durations :
          LET d == snooze_seconds[duration]
          IN (/\ ~store[id].active
              /\ d # None /\ Val(d) >= MIN_SECONDS /\ Val(d) <= MAX_RELATIVE_SECONDS
              /\ snooze(store[id].user_id, id, duration))
             => /\ out' = Done("snooze", "Reminder snoozed.", id)
                /\ store'[id].due_at = now + Val(d)
                /\ ~store'[id].active
     /\ (out.op = "snooze" /\ out.kind = "done" /\ ~store[out.id].active)
          => /\ ~store'[out.id].active
             /\ (pc = "idle" /\ pc' = "sending") => out.id \notin Ids(todo')]_vars

\* The seconds a form denotes: days*86400 + hours*3600 + minutes*60 + seconds.
Amount(a) == IF a = None THEN 0 ELSE Val(a).val
Total(form) ==
  Amount(form[1]) * 86400 + Amount(form[2]) * 3600 + Amount(form[3]) * 60
    + Amount(form[4])

\* Every text of the form NdNhNmNs of the inputs, with the seconds it denotes.
DurationCases ==
  UNION {{<< t, Total(form) >> : t \in Written(form)} : form \in DurationForms}

\* C18: parse_duration on a text NdNhNmNs (units optional, in the order
\* days-hours-minutes-seconds, in either case, with spaces around) returns
\* days*86400 + hours*3600 + minutes*60 + seconds when that total is
\* positive and None when it is zero; it returns None for the empty text,
\* for units out of order and for every other text that is not a keyword.
C18_ParseDurationSum ==
  (call.fn = "parse_duration" /\ call.returned)
  => /\ \A c \in DurationCases :
          c[1] = call.arg => call.ret = (IF c[2] > 0 THEN Some(c[2]) ELSE None)
     /\ call.arg \in OtherTexts => call.ret = None

\* C18's case: parse_duration has returned 95400 for "1d2h30m".
C18_Witness ==
  /\ call.fn = "parse_duration" /\ call.returned
  /\ call.arg = << "1", "d", "2", "h", "3", "0", "m" >>
  /\ call.ret = Some(95400)

\* The keywords with their seconds.
KeywordSeconds ==
  { << HOURLY, 3600 >>, << DAILY, 86400 >>, << WEEKLY, 604800 >> }

\* C19: parse_duration and parse_repeat return 3600, 86400 and 604800 for
\* hourly, daily and weekly; parse_repeat returns None for a missing or
\* empty string and, for every other string, what parse_duration returns
\* for it.
C19_RepeatAsDuration ==
  /\ (call.fn = "parse_duration" /\ call.returned)
       => \A k \in KeywordSeconds : call.arg = k[1] => call.ret = Some(k[2])
  /\ (call.fn = "parse_repeat" /\ call.returned)
       => IF call.arg = None \/ call.arg = Some(<< >>)
          THEN call.ret = None
          ELSE /\ call.ret = parse_duration(Val(call.arg))
               /\ \A k \in KeywordSeconds :
                    call.arg = Some(k[1]) => call.ret = Some(k[2])

\* C19's case: parse_repeat has returned 604800 for "weekly".
C19_Witness ==
  /\ call.fn = "parse_repeat" /\ call.returned
  /\ call.arg = Some(WEEKLY) /\ call.ret = Some(604800)

\* The time of day, in seconds, each text of TimeTexts names.
TimeOfDay ==
  { << << "1", "1", ":", "5", "9", " ", "P", "M" >>, 23 * 3600 + 59 * 60 >>,
    << << "9", ":", "0", "0", " ", "P", "M" >>, 21 * 3600 >>,
    << << "1", "2", ":", "0", "0", " ", "A", "M" >>, 0 >>,
    << << "0", "0", ":", "3", "0" >>, 30 * 60 >>,
    << << "2", ":", "3", "0", " ", "p", "m" >>, 14 * 3600 + 30 * 60 >> }

\* The first instant (UTC) later than clock + MIN_SECONDS at which the wall
\* clock of DEFAULT_TZ shows the time of day tod.
NextOccurrence(tod, clock) ==
  LET local == clock - EST_OFFSET
      today == (local \div 86400) * 86400 + tod + EST_OFFSET
  IN IF today > clock + MIN_SECONDS THEN today ELSE today + 86400

\* C20: parse_absolute_datetime on a time with no date, called when the
\* clock reads `now`, returns the first occurrence of that wall-clock time
\* in the default timezone that is later than now + 60 s.
C20_TimeOnlyNextOccurrence ==
  (call.fn = "parse_absolute_datetime" /\ call.returned)
  => \A c \in TimeOfDay :
       call.arg = c[1] => call.ret = Some(Aware(NextOccurrence(c[2], now)))

\* The send of reminder id's notification starts in this step.
SendStarts(id) == pc' = "sending" /\ todo' # todo /\ Head(todo').id = id

\* A pass saves its update of reminder id in this step.
PassSaves(id) == fired'[id] = fired[id] + 1

\* The instant the pass at work in this step read the store.
PassReadAt == IF pc = "idle" THEN now ELSE readAt

\* C21: every record a pass holds was active with due_at no later than the
\* clock when the pass read the store; no send of a reminder's notification
\* starts while the record's due_at is later than the clock; and a pass
\* writes no record whose due_at is later than the instant the pass read the
\* store.
C21_OnlyDueRecordsTouched ==
  [][/\ \A k \in DOMAIN todo' :
          todo'[k].row.active /\ todo'[k].row.due_at <= readAt'
     /\ \A id \in DOMAIN store :
          /\ SendStarts(id) => store'[id].due_at <= now'
          /\ PassSaves(id) => store[id].due_at <= PassReadAt]_vars

\* C22: when a pass saves its update of a recurring reminder that this
\* firing does not exhaust, the new due_at is the record's previous due_at
\* plus interval_seconds, however late the pass is.
C22_RescheduleFromDue ==
  [][\A id \in DOMAIN store :
       (PassSaves(id) /\ store[id].is_recurring /\ store'[id].active)
       => store'[id].due_at = store[id].due_at + Val(store[id].interval_seconds)]_vars

\* The ids of the records the pass at work in this step still has to
\* process: those its query selects when it starts, those it holds after.
PassHolds ==
  Ids(IF pc = "idle" THEN due_query(store, utcnow(now).t, 1) ELSE todo)

\* C23: a pass holds each record at most once and only moves forward through
\* its list; a step saves at most one update of a record, only of a record
\* the pass holds, and the pass does not hold that record afterwards; the
\* update moves a recurring reminder's due_at on by one interval or not at
\* all, however late the pass is, and a reminder that is still due after its
\* update is left for the passes that follow.
C23_OneFiringPerPass ==
  [][/\ \A a, b \in DOMAIN todo' : a # b => todo'[a].id # todo'[b].id
     /\ (pc = "sending" /\ pc' = "sending") => todo' \in {todo, Tail(todo)}
     /\ \A id \in DOMAIN store :
          /\ fired'[id] \in {fired[id], fired[id] + 1}
          /\ PassSaves(id) => id \in PassHolds /\ id \notin Ids(todo')
          /\ store'[id].due_at # store[id].due_at =>
               /\ PassSaves(id) /\ store[id].is_recurring
               /\ store'[id].due_at = store[id].due_at + Val(store[id].interval_seconds)
          /\ (PassSaves(id) /\ store'[id].active /\ store'[id].due_at <= now')
             => ~Delivering(id)']_vars

\* C23's case: a recurring reminder one interval overdue has been fired by
\* two passes at the same clock, once each, and is now due in the future.
C23_Witness ==
  \E id \in DOMAIN store :
    /\ store[id].is_recurring /\ store[id].active /\ fired[id] = 2
    /\ now = store[id].created_at + 2 * MIN_SECONDS
    /\ store[id].due_at = now + MIN_SECONDS
    /\ store[id].last_sent_at = Some(now) /\ pc = "idle"

\* Reminder id is active with due_at no later than the clock.
Due(id) ==
  id \in DOMAIN store /\ store[id].active /\ store[id].due_at <= utcnow(now).t

\* C24: a pass that starts takes up every reminder that is due, and a pass
\* drops no record it holds: each is kept for its turn or has its update
\* saved; a due reminder stops being due only by a pass's update, a cancel
\* or a snooze; and under the scheduling of the loop every due reminder
\* eventually stops being due, so that one that is neither cancelled nor
\* snoozed first is eventually dispatched.
C24_DueIsDispatched ==
  /\ [][\A id \in DOMAIN store :
          /\ (pc = "idle" /\ todo' # todo /\ Due(id)) => id \in Ids(todo')
          /\ (pc = "idle" /\ Due(id) /\ \E other \in DOMAIN store : PassSaves(other))
             => PassSaves(id)
          /\ (pc = "sending" /\ id \in Ids(todo))
             => (pc' = "sending" /\ id \in Ids(todo')) \/ PassSaves(id)
          /\ (Due(id) /\ ~Due(id)')
             => \/ PassSaves(id)
                \/ out'.op \in {"cancel", "snooze"} /\ out'.kind = "done"
                     /\ out'.id = id]_vars
  /\ \A id \in 1..MaxReminders : Due(id) ~> ~Due(id)

\* C24's case: a reminder that became due has been dispatched by a pass,
\* untouched by cancel and snooze, and is no longer due.
C24_Witness ==
  \E id \in DOMAIN store :
    /\ Untouched(id) /\ fired[id] >= 1 /\ ~Due(id)
    /\ store[id].last_sent_at = Some(now) /\ pc = "idle"

\* C25: in every state each record has is_recurring exactly when its
\* interval_seconds is set, and an interval that is set is at least
\* MIN_SECONDS.
C25_RecurringIffInterval ==
  \A id \in DOMAIN store :
    /\ store[id].is_recurring <=> store[id].interval_seconds # None
    /\ store[id].interval_seconds # None
         => Val(store[id].interval_seconds) >= MIN_SECONDS

\* C25's case: the table holds a recurring reminder that has been dispatched
\* and create has just turned down a repeat below the minimum.
C25_Witness ==
  /\ out = Message("create", "Recurrence interval must be >= 1 minute.")
  /\ \E id \in DOMAIN store :
       store[id].is_recurring /\ store[id].interval_seconds = Some(MIN_SECONDS)
         /\ fired[id] >= 1

\* C26: in every state each record's occurrences_left is None or at least
\* zero; an active recurring record with a count has at least one occurrence
\* left, and a record with zero left is inactive.
C26_OccurrencesLeftRange ==
  \A id \in DOMAIN store :
    LET r == store[id]
    IN /\ r.occurrences_left # None => Val(r.occurrences_left) >= 0
       /\ (r.active /\ r.is_recurring /\ r.occurrences_left # None)
            => Val(r.occurrences_left) >= 1
       /\ r.occurrences_left = Some(0) => ~r.active

\* C26's case: a reminder has run out of occurrences and create has just
\* turned down a repeat_count of zero.
C26_Witness ==
  /\ out = Message("create", "repeat_count must be a positive integer.")
  /\ \E id \in DOMAIN store :
       store[id].occurrences_left = Some(0) /\ ~store[id].active

\* The fields of a record that are fixed at creation.
Fixed(r) ==
  << r.user_id, r.content, r.created_at, r.is_recurring, r.interval_seconds >>

\* C27: every step keeps each record under its id, with its owner, content,
\* created_at, is_recurring and interval_seconds as they are.
C27_FixedAtCreation ==
  [][\A id \in DOMAIN store :
       id \in DOMAIN store' /\ Fixed(store'[id]) = Fixed(store[id])]_vars

\* C27's case: a reminder that has been snoozed, cancelled and dispatched
\* has just been left out of its owner's list.
C27_Witness ==
  /\ out = Message("list", "You have no active reminders.")
  /\ \E id \in DOMAIN store :
       id \in snoozed /\ id \in cancelled /\ fired[id] >= 1

C29_NoSendAfterCancel ==
  [][\A id \in cancelled : ~SendStarts(id)]_vars

\* C30: in every state a record that is not recurring has occurrences_left
\* = None.
C30_OneOffHasNoCount ==
  \A id \in DOMAIN store :
    ~store[id].is_recurring => store[id].occurrences_left = None

============================================================================
